---- MODULE Spec2Model ----
(***************************************************************************)
(* The work queue of src/src/queue.rs: a caller thread that owns a         *)
(* WorkQueue, and the n_workers threads WorkQueue::new spawns.             *)
(*                                                                         *)
(* The two channels are modelled by what they hold and by who still holds  *)
(* an end of them:                                                         *)
(*   - the spmc channel of tasks: recv_tasks is its buffer, send_tasks     *)
(*     says whether the engine still holds the Sender ("Some") or has      *)
(*     destroyed it ("None").  A receive takes the head of the buffer; on  *)
(*     an empty buffer it blocks while the Sender lives and fails once it  *)
(*     is destroyed.                                                       *)
(*   - the mpsc channel of outputs: recv_output is its buffer.  new()      *)
(*     drops its own Sender when it returns, so the live Senders are the   *)
(*     clones held by the workers that have not left run().                *)
(* A task is a number 1..MaxTasks, given in enqueue order; a result        *)
(* carries the number of the task that produced it.                        *)
(***************************************************************************)
EXTENDS Naturals, Sequences, FiniteSets

\* Bounds of the model.
MaxWorkers == 2
MaxTasks == 3
MaxProof == 4

\* let chunks: u64 = 2345; in mine_for_proof.
MineChunks == 2345

VARIABLES
    n_workers,      \* the argument of WorkQueue::new
    send_tasks,     \* "Some" | "None"     (queue.rs:10)
    recv_tasks,     \* buffer of the task channel (queue.rs:11)
    recv_output,    \* buffer of the output channel (queue.rs:12)
    workers,        \* the JoinHandles still held, in spawn order (queue.rs:13)
    wpc,            \* each worker's position in run()
    wtask,          \* the task a worker holds (0: none)
    cpc,            \* the caller's position
    dropping,       \* the caller's shutdown() was called by Drop::drop
    n_enqueued,     \* tasks accepted by enqueue so far
    some_tasks,     \* the accepted tasks whose run() returns Some
    n_run,          \* per task: how many times run() was executed
    delivered,      \* per task: how many times the caller was handed its result
    discarded,      \* tasks shutdown's drain loop received and dropped
    shutdown_returned, \* some call of shutdown() has returned
    explicit_shutdown, \* the caller itself has called shutdown()
    drop_ran,       \* what Drop::drop did: "no" (not dropped yet) | "skip" | "shutdown"
    last,           \* the last API call, the state it was made in, its outcome
    job             \* the program that owns the queue, and its arguments

vars == <<n_workers, send_tasks, recv_tasks, recv_output, workers, wpc, wtask,
          cpc, dropping, n_enqueued, some_tasks, n_run, delivered, discarded,
          shutdown_returned, explicit_shutdown, drop_ran, last, job>>

\* The tasks the owner of the queue may enqueue, numbered in enqueue order.
Tasks == DOMAIN n_run
WorkerIds == 1..n_workers

\* The workers that have not returned from run(): each still owns its clone
\* of the output Sender and its clone of the task Receiver.
Alive == {w \in WorkerIds : wpc[w] # "exited"}

\* Mutant of OutputSenders: the engine keeps the Sender new() created (0
\* stands for the engine), so the output channel never disconnects.
OutputSenders_EngineKeepsOne == Alive \cup {0}

\* Who holds a Sender of the output channel: new() hands a clone to each worker
\* and drops its own on return, so these are the workers still inside run().
OutputSenders == Alive

\* The task Sender has been destroyed.
Disconnected == send_tasks = "None"

\* The engine's fields (its recv_output among them) are released once drop is over.
ReceiverAlive == cpc # "dropped"

RECURSIVE SumOver(_, _)
SumOver(f, S) ==
    IF S = {} THEN 0
    ELSE LET x == CHOOSE y \in S : TRUE IN f[x] + SumOver(f, S \ {x})

TotalRun == SumOver(n_run, Tasks)
TotalDelivered == SumOver(delivered, Tasks)

RECURSIVE SeqToSet(_)
SeqToSet(s) == IF s = <<>> THEN {} ELSE {Head(s)} \cup SeqToSet(Tail(s))

RECURSIVE Count(_, _)
Count(s, x) ==
    IF s = <<>> THEN 0
    ELSE (IF Head(s) = x THEN 1 ELSE 0) + Count(Tail(s), x)

\* The methods that look at the output channel.
Receives == {"recv", "iter", "try_recv", "recv_timeout"}

\* The record of an API call made in the current state: the method, its
\* outcome, whether send_tasks was None already, and, for a method that
\* receives, what the output channel held and how many workers were alive.
Call(op, outcome) ==
    [op |-> op, outcome |-> outcome, closed |-> Disconnected,
     pending |-> IF op \in Receives THEN Len(recv_output) ELSE 0,
     alive |-> IF op \in Receives THEN Cardinality(Alive) ELSE 0]

\* A caller that may call any method of the queue at any time.
AnyCaller == [kind |-> "any", start |-> 0, end |-> 0, chunks |-> 0, valid |-> {}]

\* WorkQueue::new(n), called by program j, which enqueues at most m tasks:
\* channels created, n threads spawned, their handles recorded.
New(n, m, j) ==
    /\ job = j
    /\ n_workers = n
    /\ send_tasks = "Some"
    /\ recv_tasks = <<>>
    /\ recv_output = <<>>
    /\ workers = [i \in 1..n |-> i]
    /\ wpc = [w \in 1..n |-> "recv"]
    /\ wtask = [w \in 1..n |-> 0]
    /\ cpc = "idle"
    /\ dropping = FALSE
    /\ n_enqueued = 0
    /\ some_tasks = {}
    /\ n_run = [t \in 1..m |-> 0]
    /\ delivered = [t \in 1..m |-> 0]
    /\ discarded = {}
    /\ shutdown_returned = FALSE
    /\ explicit_shutdown = FALSE
    /\ drop_ran = "no"
    /\ last = [op |-> "new", outcome |-> "Ok", closed |-> FALSE,
               pending |-> 0, alive |-> 0]

Init == \E n \in 0..MaxWorkers : New(n, MaxTasks, AnyCaller)

(***************************************************************************)
(* The worker threads: WorkQueue::run.                                     *)
(***************************************************************************)

\* Mutant of WorkerRecv: the task is read from the head of the buffer but left
\* there for the next receive.
WorkerRecv_Peek(w) ==
    /\ wpc[w] = "recv"
    /\ IF recv_tasks # <<>>
       THEN /\ wpc' = [wpc EXCEPT ![w] = "run"]
            /\ wtask' = [wtask EXCEPT ![w] = Head(recv_tasks)]
       ELSE /\ Disconnected
            /\ wpc' = [wpc EXCEPT ![w] = "exited"]
            /\ UNCHANGED wtask
    /\ UNCHANGED <<job, n_workers, send_tasks, recv_tasks, recv_output, workers, cpc,
                   dropping, n_enqueued, some_tasks, n_run, delivered, discarded,
                   shutdown_returned, explicit_shutdown, drop_ran, last>>

\* recv_tasks.recv() of a worker: the head of the buffer, or Err (and the
\* worker returns) once the buffer is empty and the Sender destroyed.
WorkerRecv(w) ==
    /\ wpc[w] = "recv"
    /\ IF recv_tasks # <<>>
       THEN /\ wpc' = [wpc EXCEPT ![w] = "run"]
            /\ wtask' = [wtask EXCEPT ![w] = Head(recv_tasks)]
            /\ recv_tasks' = Tail(recv_tasks)
       ELSE /\ Disconnected
            /\ wpc' = [wpc EXCEPT ![w] = "exited"]
            /\ UNCHANGED <<wtask, recv_tasks>>
    /\ UNCHANGED <<job, n_workers, send_tasks, recv_output, workers, cpc, dropping,
                   n_enqueued, some_tasks, n_run, delivered, discarded,
                   shutdown_returned, explicit_shutdown, drop_ran, last>>

\* Mutant of WorkerRun: a task that returns None ends the worker's loop.
WorkerRun_ReturnsOnNone(w) ==
    /\ wpc[w] = "run"
    /\ n_run' = [n_run EXCEPT ![wtask[w]] = @ + 1]
    /\ IF wtask[w] \in some_tasks
       THEN /\ wpc' = [wpc EXCEPT ![w] = "send"]
            /\ UNCHANGED wtask
       ELSE /\ wpc' = [wpc EXCEPT ![w] = "exited"]
            /\ wtask' = [wtask EXCEPT ![w] = 0]
    /\ UNCHANGED <<job, n_workers, send_tasks, recv_tasks, recv_output, workers,
                   cpc, dropping, n_enqueued, some_tasks, delivered, discarded,
                   shutdown_returned, explicit_shutdown, drop_ran, last>>

\* Mutant of WorkerRun: the worker sends a value whatever run() returned.
WorkerRun_SendsOnNone(w) ==
    /\ wpc[w] = "run"
    /\ n_run' = [n_run EXCEPT ![wtask[w]] = @ + 1]
    /\ wpc' = [wpc EXCEPT ![w] = "send"]
    /\ UNCHANGED <<job, n_workers, send_tasks, recv_tasks, recv_output, workers, cpc,
                   dropping, n_enqueued, some_tasks, delivered, discarded,
                   shutdown_returned, explicit_shutdown, drop_ran, last, wtask>>

\* task.run(): the task is executed; Some goes on to the send, None back to the loop.
WorkerRun(w) ==
    /\ wpc[w] = "run"
    /\ n_run' = [n_run EXCEPT ![wtask[w]] = @ + 1]
    /\ IF wtask[w] \in some_tasks
       THEN /\ wpc' = [wpc EXCEPT ![w] = "send"]
            /\ UNCHANGED wtask
       ELSE /\ wpc' = [wpc EXCEPT ![w] = "recv"]
            /\ wtask' = [wtask EXCEPT ![w] = 0]
    /\ UNCHANGED <<job, n_workers, send_tasks, recv_tasks, recv_output, workers, cpc,
                   dropping, n_enqueued, some_tasks, delivered, discarded,
                   shutdown_returned, explicit_shutdown, drop_ran, last>>

\* Mutant of WorkerSend: the value of a Some is dropped instead of sent.
WorkerSend_Lossy(w) ==
    /\ wpc[w] = "send"
    /\ wpc' = [wpc EXCEPT ![w] = "recv"]
    /\ wtask' = [wtask EXCEPT ![w] = 0]
    /\ UNCHANGED <<job, n_workers, send_tasks, recv_tasks, recv_output, workers, cpc,
                   dropping, n_enqueued, some_tasks, n_run, delivered, discarded,
                   shutdown_returned, explicit_shutdown, drop_ran, last>>

\* Mutant of WorkerSend: the worker leaves the loop after a send, successful or not.
WorkerSend_BreaksAfterSend(w) ==
    /\ wpc[w] = "send"
    /\ recv_output' = IF ReceiverAlive THEN Append(recv_output, wtask[w])
                      ELSE recv_output
    /\ wpc' = [wpc EXCEPT ![w] = "exited"]
    /\ wtask' = [wtask EXCEPT ![w] = 0]
    /\ UNCHANGED <<job, n_workers, send_tasks, recv_tasks, workers, cpc, dropping,
                   n_enqueued, some_tasks, n_run, delivered, discarded,
                   shutdown_returned, explicit_shutdown, drop_ran, last>>

\* send_output.send(task_value): Err, and the worker leaves the loop, only
\* when the Receiver is gone.
WorkerSend(w) ==
    /\ wpc[w] = "send"
    /\ IF ReceiverAlive
       THEN /\ recv_output' = Append(recv_output, wtask[w])
            /\ wpc' = [wpc EXCEPT ![w] = "recv"]
       ELSE /\ wpc' = [wpc EXCEPT ![w] = "exited"]
            /\ UNCHANGED recv_output
    /\ wtask' = [wtask EXCEPT ![w] = 0]
    /\ UNCHANGED <<job, n_workers, send_tasks, recv_tasks, workers, cpc, dropping,
                   n_enqueued, some_tasks, n_run, delivered, discarded,
                   shutdown_returned, explicit_shutdown, drop_ran, last>>

Worker(w) == WorkerRecv(w) \/ WorkerRun(w) \/ WorkerSend(w)

(***************************************************************************)
(* The caller: the public methods of WorkQueue.                            *)
(***************************************************************************)

\* Mutant of Enqueue: on a None field the call returns an error value instead
\* of panicking.
Enqueue_ErrWhenClosed(produces) ==
    /\ cpc = "idle"
    /\ IF send_tasks = "Some"
       THEN /\ n_enqueued + 1 \in Tasks
            /\ n_enqueued' = n_enqueued + 1
            /\ recv_tasks' = Append(recv_tasks, n_enqueued + 1)
            /\ some_tasks' = IF produces THEN some_tasks \cup {n_enqueued + 1}
                             ELSE some_tasks
            /\ last' = Call("enqueue", "Ok")
       ELSE /\ last' = Call("enqueue", "Err")
            /\ UNCHANGED <<n_enqueued, recv_tasks, some_tasks>>
    /\ UNCHANGED <<job, n_workers, send_tasks, recv_output, workers, wpc, wtask, cpc,
                   dropping, n_run, delivered, discarded, shutdown_returned,
                   explicit_shutdown, drop_ran>>

\* Mutant of Enqueue: the task is put in the buffer whether or not the field
\* is None (shutdown keeps a Sender it can still send on).
Enqueue_AcceptsWhenClosed(produces) ==
    /\ cpc = "idle"
    /\ n_enqueued + 1 \in Tasks
    /\ n_enqueued' = n_enqueued + 1
    /\ recv_tasks' = Append(recv_tasks, n_enqueued + 1)
    /\ some_tasks' = IF produces THEN some_tasks \cup {n_enqueued + 1}
                     ELSE some_tasks
    /\ last' = Call("enqueue", "Ok")
    /\ UNCHANGED <<job, n_workers, send_tasks, recv_output, workers, wpc, wtask, cpc,
                   dropping, n_run, delivered, discarded, shutdown_returned,
                   explicit_shutdown, drop_ran>>

\* enqueue(t): send on the task Sender, or panic when the field is None.
\* produces: whether this task's run() returns Some.
Enqueue(produces) ==
    /\ cpc = "idle"
    /\ IF send_tasks = "Some"
       THEN /\ n_enqueued + 1 \in Tasks
            /\ n_enqueued' = n_enqueued + 1
            /\ recv_tasks' = Append(recv_tasks, n_enqueued + 1)
            /\ some_tasks' = IF produces THEN some_tasks \cup {n_enqueued + 1}
                             ELSE some_tasks
            /\ last' = Call("enqueue", "Ok")
            /\ UNCHANGED cpc
       ELSE /\ cpc' = "unwind"
            /\ last' = Call("enqueue", "panic")
            /\ UNCHANGED <<n_enqueued, recv_tasks, some_tasks>>
    /\ UNCHANGED <<job, n_workers, send_tasks, recv_output, workers, wpc, wtask,
                   dropping, n_run, delivered, discarded, shutdown_returned,
                   explicit_shutdown, drop_ran>>

\* recv() is entered; the caller now waits on the output channel.
RecvCall ==
    /\ cpc = "idle"
    /\ cpc' = "recv"
    /\ last' = Call("recv", "waiting")
    /\ UNCHANGED <<job, n_workers, send_tasks, recv_tasks, recv_output, workers, wpc,
                   wtask, dropping, n_enqueued, some_tasks, n_run, delivered,
                   discarded, shutdown_returned, explicit_shutdown, drop_ran>>

\* recv_output.recv().expect(..): the next result; a panic when the buffer is
\* empty and no Sender is left; otherwise the caller stays blocked.
RecvReturn ==
    /\ cpc = "recv"
    /\ IF recv_output # <<>>
       THEN /\ delivered' = [delivered EXCEPT ![Head(recv_output)] = @ + 1]
            /\ recv_output' = Tail(recv_output)
            /\ cpc' = "idle"
            /\ last' = [last EXCEPT !.outcome = "Ok"]
       ELSE /\ OutputSenders = {}
            /\ cpc' = "unwind"
            /\ last' = [last EXCEPT !.outcome = "panic"]
            /\ UNCHANGED <<delivered, recv_output>>
    /\ UNCHANGED <<job, n_workers, send_tasks, recv_tasks, workers, wpc, wtask,
                   dropping, n_enqueued, some_tasks, n_run, discarded,
                   shutdown_returned, explicit_shutdown, drop_ran>>

\* iter().next() is entered: the caller waits on the output channel.
IterCall ==
    /\ cpc = "idle"
    /\ cpc' = "iter"
    /\ last' = Call("iter", "waiting")
    /\ UNCHANGED <<job, n_workers, send_tasks, recv_tasks, recv_output, workers,
                   wpc, wtask, dropping, n_enqueued, some_tasks, n_run, delivered,
                   discarded, shutdown_returned, explicit_shutdown, drop_ran>>

\* Mutant of IterReturn: the sequence is that of try_iter(), which ends as
\* soon as the buffer is empty.
IterReturn_EndsOnEmpty ==
    /\ cpc = "iter"
    /\ cpc' = "idle"
    /\ IF recv_output # <<>>
       THEN /\ delivered' = [delivered EXCEPT ![Head(recv_output)] = @ + 1]
            /\ recv_output' = Tail(recv_output)
            /\ last' = [last EXCEPT !.outcome = "Some"]
       ELSE /\ last' = [last EXCEPT !.outcome = "None"]
            /\ UNCHANGED <<delivered, recv_output>>
    /\ UNCHANGED <<job, n_workers, send_tasks, recv_tasks, workers, wpc, wtask,
                   dropping, n_enqueued, some_tasks, n_run, discarded,
                   shutdown_returned, explicit_shutdown, drop_ran>>

\* The next() of mpsc::Iter is recv().ok(): the next result, or None (the
\* sequence ends) when the buffer is empty and no Sender is left; otherwise
\* the caller stays blocked.
IterReturn ==
    /\ cpc = "iter"
    /\ cpc' = "idle"
    /\ IF recv_output # <<>>
       THEN /\ delivered' = [delivered EXCEPT ![Head(recv_output)] = @ + 1]
            /\ recv_output' = Tail(recv_output)
            /\ last' = [last EXCEPT !.outcome = "Some"]
       ELSE /\ OutputSenders = {}
            /\ last' = [last EXCEPT !.outcome = "None"]
            /\ UNCHANGED <<delivered, recv_output>>
    /\ UNCHANGED <<job, n_workers, send_tasks, recv_tasks, workers, wpc, wtask,
                   dropping, n_enqueued, some_tasks, n_run, discarded,
                   shutdown_returned, explicit_shutdown, drop_ran>>

\* Mutant of PollOutcome: an empty buffer is reported as Disconnected whether
\* or not a Sender is left.
PollOutcome_EmptyIsDisconnected(op) ==
    IF recv_output # <<>> THEN "Ok" ELSE "Disconnected"

\* The outcome of a receive that does not wait for a result that is not there.
PollOutcome(op) ==
    IF recv_output # <<>> THEN "Ok"
    ELSE IF OutputSenders = {} THEN "Disconnected"
    ELSE IF op = "try_recv" THEN "Empty" ELSE "Timeout"

\* try_recv() and recv_timeout(): op is "try_recv" or "recv_timeout".
Poll(op) ==
    /\ cpc = "idle"
    /\ last' = Call(op, PollOutcome(op))
    /\ IF recv_output # <<>>
       THEN /\ delivered' = [delivered EXCEPT ![Head(recv_output)] = @ + 1]
            /\ recv_output' = Tail(recv_output)
       ELSE UNCHANGED <<delivered, recv_output>>
    /\ UNCHANGED <<job, n_workers, send_tasks, recv_tasks, workers, wpc, wtask, cpc,
                   dropping, n_enqueued, some_tasks, n_run, discarded,
                   shutdown_returned, explicit_shutdown, drop_ran>>

\* Mutant of ShutdownClose: the Sender is not destroyed.
ShutdownClose_KeepsSender(by_drop) ==
    /\ send_tasks' = send_tasks
    /\ cpc' = "drain"
    /\ dropping' = by_drop
    /\ explicit_shutdown' = (explicit_shutdown \/ ~by_drop)
    /\ drop_ran' = IF by_drop THEN "shutdown" ELSE drop_ran
    /\ last' = Call(IF by_drop THEN "drop" ELSE "shutdown", "running")
    /\ UNCHANGED <<job, n_workers, recv_tasks, recv_output, workers, wpc, wtask,
                   n_enqueued, some_tasks, n_run, delivered, discarded,
                   shutdown_returned>>

\* Mutant of ShutdownClose: the Sender is taken out of the field and unwrapped,
\* which panics when the field is already None.
ShutdownClose_PanicsWhenClosed(by_drop) ==
    /\ IF send_tasks = "None"
       THEN /\ cpc' = "unwind"
            /\ last' = Call(IF by_drop THEN "drop" ELSE "shutdown", "panic")
            /\ UNCHANGED <<send_tasks, dropping, explicit_shutdown, drop_ran>>
       ELSE /\ send_tasks' = "None"
            /\ cpc' = "drain"
            /\ dropping' = by_drop
            /\ explicit_shutdown' = (explicit_shutdown \/ ~by_drop)
            /\ drop_ran' = IF by_drop THEN "shutdown" ELSE drop_ran
            /\ last' = Call(IF by_drop THEN "drop" ELSE "shutdown", "running")
    /\ UNCHANGED <<job, n_workers, recv_tasks, recv_output, workers, wpc, wtask,
                   n_enqueued, some_tasks, n_run, delivered, discarded,
                   shutdown_returned>>

\* shutdown(), entered by the caller or by drop: self.send_tasks = None.
ShutdownClose(by_drop) ==
    /\ send_tasks' = "None"
    /\ cpc' = "drain"
    /\ dropping' = by_drop
    /\ explicit_shutdown' = (explicit_shutdown \/ ~by_drop)
    /\ drop_ran' = IF by_drop THEN "shutdown" ELSE drop_ran
    /\ last' = Call(IF by_drop THEN "drop" ELSE "shutdown", "running")
    /\ UNCHANGED <<job, n_workers, recv_tasks, recv_output, workers, wpc, wtask,
                   n_enqueued, some_tasks, n_run, delivered, discarded,
                   shutdown_returned>>

Shutdown ==
    /\ cpc = "idle"
    /\ ShutdownClose(FALSE)

\* Mutant of ShutdownDrain: the loop drains the output channel along with the
\* task channel.
ShutdownDrain_AlsoDrainsOutput ==
    /\ cpc = "drain"
    /\ IF recv_tasks # <<>>
       THEN /\ recv_tasks' = Tail(recv_tasks)
            /\ discarded' = discarded \cup {Head(recv_tasks)}
            /\ UNCHANGED cpc
       ELSE /\ Disconnected
            /\ cpc' = "join"
            /\ UNCHANGED <<recv_tasks, discarded>>
    /\ recv_output' = <<>>
    /\ UNCHANGED <<job, n_workers, send_tasks, workers, wpc, wtask, dropping,
                   n_enqueued, some_tasks, n_run, delivered, shutdown_returned,
                   explicit_shutdown, drop_ran, last>>

\* One self.recv_tasks.recv() of the drain loop: a task is received and
\* dropped, or the receive fails and the loop ends.
ShutdownDrain ==
    /\ cpc = "drain"
    /\ IF recv_tasks # <<>>
       THEN /\ recv_tasks' = Tail(recv_tasks)
            /\ discarded' = discarded \cup {Head(recv_tasks)}
            /\ UNCHANGED cpc
       ELSE /\ Disconnected
            /\ cpc' = "join"
            /\ UNCHANGED <<recv_tasks, discarded>>
    /\ UNCHANGED <<job, n_workers, send_tasks, recv_output, workers, wpc, wtask,
                   dropping, n_enqueued, some_tasks, n_run, delivered,
                   shutdown_returned, explicit_shutdown, drop_ran, last>>

\* Mutant of ShutdownJoin: the handle is dropped without waiting for the
\* thread (the worker is detached, not joined).
ShutdownJoin_NoWait ==
    /\ cpc = "join"
    /\ workers # <<>>
    /\ workers' = Tail(workers)
    /\ UNCHANGED <<job, n_workers, send_tasks, recv_tasks, recv_output, wpc, wtask,
                   cpc, dropping, n_enqueued, some_tasks, n_run, delivered,
                   discarded, shutdown_returned, explicit_shutdown, drop_ran, last>>

\* worker.join() on the next handle drained from self.workers: returns once
\* that worker has left run().
ShutdownJoin ==
    /\ cpc = "join"
    /\ workers # <<>>
    /\ wpc[Head(workers)] = "exited"
    /\ workers' = Tail(workers)
    /\ UNCHANGED <<job, n_workers, send_tasks, recv_tasks, recv_output, wpc, wtask,
                   cpc, dropping, n_enqueued, some_tasks, n_run, delivered,
                   discarded, shutdown_returned, explicit_shutdown, drop_ran, last>>

\* shutdown() returns: to the caller, or to drop, which then releases the engine.
ShutdownReturn ==
    /\ cpc = "join"
    /\ workers = <<>>
    /\ cpc' = IF dropping THEN "dropped" ELSE "idle"
    /\ dropping' = FALSE
    /\ shutdown_returned' = TRUE
    /\ last' = [last EXCEPT !.outcome = "Ok"]
    /\ UNCHANGED <<job, n_workers, send_tasks, recv_tasks, recv_output, workers, wpc,
                   wtask, n_enqueued, some_tasks, n_run, delivered, discarded,
                   explicit_shutdown, drop_ran>>

\* Mutant of Drop: the engine is released without the shutdown sequence.
Drop_NoShutdown ==
    /\ cpc \in {"idle", "unwind"}
    /\ cpc' = "dropped"
    /\ drop_ran' = "skip"
    /\ last' = Call("drop", "Ok")
    /\ UNCHANGED <<job, n_workers, send_tasks, recv_tasks, recv_output, workers, wpc,
                   wtask, dropping, n_enqueued, some_tasks, n_run, delivered,
                   discarded, shutdown_returned, explicit_shutdown>>

\* Drop::drop, when the engine goes out of scope or a panic unwinds through
\* its owner: shutdown() unless send_tasks is already None.
Drop ==
    /\ cpc \in {"idle", "unwind"}
    /\ IF send_tasks = "None"
       THEN /\ cpc' = "dropped"
            /\ drop_ran' = "skip"
            /\ last' = Call("drop", "Ok")
            /\ UNCHANGED <<send_tasks, dropping, explicit_shutdown>>
       ELSE ShutdownClose(TRUE)
    /\ UNCHANGED <<job, n_workers, recv_tasks, recv_output, workers, wpc, wtask,
                   n_enqueued, some_tasks, n_run, delivered, discarded,
                   shutdown_returned>>

Caller ==
    \/ \E produces \in BOOLEAN : Enqueue(produces)
    \/ RecvCall
    \/ RecvReturn
    \/ IterCall
    \/ IterReturn
    \/ \E op \in {"try_recv", "recv_timeout"} : Poll(op)
    \/ Shutdown
    \/ ShutdownDrain
    \/ ShutdownJoin
    \/ ShutdownReturn
    \/ Drop

Next == (\E w \in WorkerIds : Worker(w)) \/ Caller

Spec == Init /\ [][Next]_vars

\* Every thread that can take a step eventually takes one.  Which method the
\* caller calls next, and whether it calls one at all, is left open.
Fairness ==
    /\ \A w \in 1..MaxWorkers : WF_vars(w \in WorkerIds /\ Worker(w))
    /\ WF_vars(RecvReturn)
    /\ WF_vars(IterReturn)
    /\ WF_vars(ShutdownDrain)
    /\ WF_vars(ShutdownJoin)
    /\ WF_vars(ShutdownReturn)

FairSpec == Spec /\ Fairness

TypeOK ==
    /\ n_workers \in 0..MaxWorkers
    /\ send_tasks \in {"Some", "None"}
    /\ cpc \in {"idle", "recv", "iter", "drain", "join", "unwind", "dropped"}
    /\ \A w \in WorkerIds : wpc[w] \in {"recv", "run", "send", "exited"}
    /\ n_enqueued \in 0..Cardinality(Tasks)

(***************************************************************************)
(* The test stop (queue_tests.rs): n workers, more than 3n tasks that each *)
(* produce a result; the caller enqueues them all, iterates over the       *)
(* results, and calls shutdown() on receiving result n + 1.                *)
(***************************************************************************)

StopJob == [kind |-> "stop", start |-> 0, end |-> 0, chunks |-> 0, valid |-> {}]

\* n_tasks of the test, scaled to the pool: the smallest number above 3n.
StopTasks(n) == 3 * n + 1

StopInit == \E n \in 1..MaxWorkers : New(n, StopTasks(n), StopJob)

\* for _ in 0..n_tasks { q.enqueue(TestTask {..}).unwrap(); }
StopEnqueue ==
    /\ last.op \in {"new", "enqueue"}
    /\ Enqueue(TRUE)

\* for r in q.iter(): the next result is asked for while n_results <= n_threads.
StopIter ==
    /\ n_enqueued = Cardinality(Tasks)
    /\ send_tasks = "Some"
    /\ TotalDelivered <= n_workers
    /\ IterCall

\* if n_results > n_threads { q.shutdown(); break; }
StopShutdown ==
    /\ send_tasks = "Some"
    /\ TotalDelivered = n_workers + 1
    /\ Shutdown

\* The end of the test: q goes out of scope.
StopEnd ==
    /\ shutdown_returned
    /\ Drop

StopCaller ==
    \/ StopEnqueue
    \/ StopIter
    \/ IterReturn
    \/ StopShutdown
    \/ ShutdownDrain
    \/ ShutdownJoin
    \/ ShutdownReturn
    \/ StopEnd

StopNext == (\E w \in WorkerIds : Worker(w)) \/ StopCaller

StopSpec == StopInit /\ [][StopNext]_vars

(***************************************************************************)
(* Block::mine_range (block.rs).  A block is what mining sees of it: the   *)
(* set of proofs p for which is_valid_for_proof(p) holds.  The arguments   *)
(* are start <= end and chunks >= 1: chunks = 0 divides by zero and        *)
(* end < start underflows.                                                 *)
(***************************************************************************)

Min(S) == CHOOSE x \in S : \A y \in S : x <= y
Max(S) == CHOOSE x \in S : \A y \in S : x >= y

MineRangeJob(start, end, chunks, valid) ==
    [kind |-> "mine_range", start |-> start, end |-> end, chunks |-> chunks,
     valid |-> valid]

is_valid_for_proof(p) == p \in job.valid

\* let range = (end - start) / chunks;
range == (job.end - job.start) \div job.chunks

\* start_point and end_point when the loop builds its i-th task, i = 1..chunks:
\* they start at 0 and range, whatever start is, and advance by range.
start_point(i) == 0 + (i - 1) * range
end_point(i) == range + (i - 1) * range

\* The proofs the i-th MiningTask iterates over, and the valid ones among them.
Chunk(i) == {p \in 0..(end_point(i) - 1) : p >= start_point(i)}
ValidIn(i) == {p \in Chunk(i) : is_valid_for_proof(p)}

\* Every proof some enqueued task iterates over.
Scheduled == UNION {Chunk(i) : i \in 1..n_enqueued}

\* Mutant of MiningTaskRun: the task returns the last valid proof of its chunk.
MiningTaskRun_Last(i) == Max(ValidIn(i))

\* MiningTask::run when it returns Some: the first valid proof of the chunk.
MiningTaskRun(i) == Min(ValidIn(i))

\* mine_serial: the smallest valid proof (it does not return without one).
mine_serial == Min(job.valid)

MineInit ==
    \E n \in 1..MaxWorkers, chunks \in 1..MaxTasks, end \in 0..MaxProof :
        \E start \in 0..end, valid \in SUBSET (0..(MaxProof - 1)) :
            New(n, chunks, MineRangeJob(start, end, chunks, valid))

\* The loop for _ in 0..chunks { .. work_queue.enqueue(task).unwrap(); .. }.
\* It is one step: the queue is open, so no enqueue fails, and an enqueue only
\* appends to the task channel, so a worker's step taken between two of them
\* has the same effect taken after the last.
MineEnqueue ==
    /\ cpc = "idle"
    /\ last.op = "new"
    /\ send_tasks = "Some"
    /\ n_enqueued' = job.chunks
    /\ recv_tasks' = [i \in 1..job.chunks |-> i]
    /\ some_tasks' = {i \in 1..job.chunks : ValidIn(i) # {}}
    /\ last' = Call("enqueue", "Ok")
    /\ UNCHANGED <<job, n_workers, send_tasks, recv_output, workers, wpc, wtask,
                   cpc, dropping, n_run, delivered, discarded, shutdown_returned,
                   explicit_shutdown, drop_ran>>

\* let r = work_queue.recv();
MineRecv ==
    /\ last.op = "enqueue"
    /\ RecvCall

\* work_queue.shutdown();
MineShutdown ==
    /\ last.op = "recv"
    /\ last.outcome = "Ok"
    /\ Shutdown

\* return r; work_queue goes out of scope.
MineReturn ==
    /\ shutdown_returned
    /\ Drop

\* mine_range has returned.
MineReturned == job.kind # "any" /\ job.kind # "stop" /\ cpc = "dropped"

\* The value mine_range returns: the result of the task whose result it received.
r == MiningTaskRun(CHOOSE t \in Tasks : delivered[t] > 0)

MineCaller ==
    \/ MineEnqueue
    \/ MineRecv
    \/ RecvReturn
    \/ MineShutdown
    \/ ShutdownDrain
    \/ ShutdownJoin
    \/ ShutdownReturn
    \/ MineReturn

MineNext == (\E w \in WorkerIds : Worker(w)) \/ MineCaller

MineSpec == MineInit /\ [][MineNext]_vars

\* The miner's thread and every worker keep running.
MineFairness ==
    /\ \A w \in 1..MaxWorkers : WF_vars(w \in WorkerIds /\ Worker(w))
    /\ WF_vars(MineCaller)

FairMineSpec == MineSpec /\ MineFairness

(***************************************************************************)
(* Block::mine (block.rs): mine_for_proof calls mine_range with the range  *)
(* [0, 8 * 2^difficulty) and 2345 chunks.  The call followed in full is    *)
(* Block::initial(0).mine(1): at difficulty 0 every proof is valid.        *)
(***************************************************************************)

\* let range_end: u64 = 8 * (1 << self.difficulty);
range_end(difficulty) == 8 * 2^difficulty

MineForProofJob(difficulty, valid) ==
    [kind |-> "mine", start |-> 0, end |-> range_end(difficulty),
     chunks |-> MineChunks, valid |-> valid]

\* Block::initial(0).mine(1); the valid proofs are all those of the range.
MineBlockInit == New(1, MineChunks, MineForProofJob(0, 0..(range_end(0) - 1)))

\* Any call of mine_range with small arguments, or mine on the initial block.
MineBlockSpec == (MineInit \/ MineBlockInit) /\ [][MineNext]_vars

(***************************************************************************)
(* The claims.                                                             *)
(***************************************************************************)

\* How many times task t's result is at hand: waiting in the output channel
\* or already handed to the caller.
Retrievable(t) == Count(recv_output, t) + delivered[t]

\* C1, no loss and no duplication: the results at hand never outnumber the
\* enqueued tasks and no task's result is at hand twice (so no retrieval beyond
\* the m-th yields a result); and with a pool of at least one worker every
\* enqueued task that produces a result has it at hand, in the output channel
\* for recv() or already received, eventually and from then on, unless the
\* queue is shut down.
C1_NoLossNoDup ==
    /\ [](/\ \A t \in Tasks : Retrievable(t) <= 1
          /\ \A t \in Tasks : Retrievable(t) = 1 => t \in some_tasks /\ n_run[t] = 1
          /\ TotalDelivered + Len(recv_output) <= n_enqueued)
    /\ <>[](n_workers >= 1 =>
               \/ Disconnected
               \/ \A t \in 1..n_enqueued : t \in some_tasks => Retrievable(t) = 1)

\* C1's case: two workers, every enqueued task produced a result, all of them
\* received, nothing left, no shutdown.
C1_Witness ==
    /\ n_workers = 2
    /\ n_enqueued >= 2
    /\ some_tasks = 1..n_enqueued
    /\ TotalDelivered = n_enqueued
    /\ recv_output = <<>>
    /\ ~Disconnected

\* C2, a task is claimed by at most one worker and run at most once: no two
\* workers hold the same task, a task a worker holds is no longer in the queue
\* and has not run before, no task has run twice, the runs never outnumber the
\* enqueued tasks, and they equal them once every task's result was received
\* with the queue still open.
C2_AtMostOnce ==
    /\ \A t \in Tasks : n_run[t] <= 1
    /\ \A w1 \in WorkerIds : \A w2 \in WorkerIds :
          (w1 # w2 /\ wtask[w1] # 0) => wtask[w1] # wtask[w2]
    /\ \A w \in WorkerIds :
          wtask[w] # 0 =>
             /\ wtask[w] \notin SeqToSet(recv_tasks)
             /\ wpc[w] = "run" => n_run[wtask[w]] = 0
    /\ TotalRun <= n_enqueued
    /\ (~Disconnected /\ TotalDelivered = n_enqueued) => TotalRun = n_enqueued

\* C2's case: two workers are executing two different tasks at the same time
\* while a third task has already run.
C2_Witness ==
    /\ n_workers = 2
    /\ wpc[1] = "run" /\ wpc[2] = "run"
    /\ wtask[1] # wtask[2]
    /\ TotalRun >= 1

InShutdown == cpc \in {"drain", "join"}

\* C4, shutdown terminates: a caller inside shutdown() (in the drain loop or
\* joining) eventually is out of it, whatever was queued or in flight, with
\* every worker out of run() and every handle joined.
C4_ShutdownTerminates ==
    InShutdown ~>
        (cpc \in {"idle", "dropped"} /\ shutdown_returned /\ Alive = {}
            /\ workers = <<>>)

\* C4's case: a shutdown called with two workers alive has returned, after
\* discarding a queued task and after a task ran.
C4_Witness ==
    /\ last.op = "shutdown"
    /\ last.outcome = "Ok"
    /\ n_workers = 2
    /\ ~last.closed
    /\ discarded # {}
    /\ TotalRun >= 1

\* C5, after shutdown has returned no worker is alive, no task is executing,
\* and no step changes the count of executed tasks or any worker's position.
C5_NothingRunsAfterShutdown ==
    /\ [](shutdown_returned =>
             /\ Alive = {}
             /\ \A w \in WorkerIds : wpc[w] = "exited" /\ wtask[w] = 0
             /\ workers = <<>>)
    /\ [][shutdown_returned => (n_run' = n_run /\ wpc' = wpc)]_vars

\* C5's case: shutdown has returned to the caller of a two-worker queue on
\* which tasks ran and a task was still being executed when it was called.
C5_Witness ==
    /\ shutdown_returned
    /\ cpc = "idle"
    /\ n_workers = 2
    /\ TotalRun >= 2
    /\ last.op = "shutdown"
    /\ ~last.closed

\* C6 as stated: once send_tasks is None no worker receives a task.
C6_NoClaimAfterClose ==
    [][Disconnected =>
          \A w \in WorkerIds : wpc'[w] = "run" => wpc[w] = "run"]_vars

\* C6, amended: once send_tasks is None no task enters the queue; a task
\* buffered at that moment leaves the queue once, to the drain (discarded,
\* never executed) or to a worker that receives it before the drain does (and
\* executes it); a task in flight is never discarded; and after shutdown() has
\* returned no worker receives a task.
C6_ClosedQueueOnlyShrinks ==
    /\ [][Disconnected =>
             /\ n_enqueued' = n_enqueued
             /\ \/ recv_tasks' = recv_tasks
                \/ /\ recv_tasks # <<>>
                   /\ recv_tasks' = Tail(recv_tasks)
                   /\ \/ discarded' = discarded \cup {Head(recv_tasks)}
                      \/ \E w \in WorkerIds :
                            wpc[w] = "recv" /\ wtask'[w] = Head(recv_tasks)]_vars
    /\ [](\A t \in discarded :
             /\ n_run[t] = 0
             /\ t \notin SeqToSet(recv_tasks)
             /\ \A w \in WorkerIds : wtask[w] # t)
    /\ [][shutdown_returned =>
             \A w \in WorkerIds : wpc'[w] = "run" => wpc[w] = "run"]_vars

\* C6's case: the drain loop is running and has discarded a task, while a
\* worker executes a task enqueued after that one: the worker received it
\* after send_tasks was set to None.
C6_Witness ==
    /\ cpc = "drain"
    /\ \E w \in WorkerIds : \E t \in discarded :
          wpc[w] = "run" /\ t < wtask[w]

\* A shutdown() called on a queue whose Sender was already destroyed.
RepeatedShutdown == last.op = "shutdown" /\ last.closed

\* The engine and its threads, without the caller's own position.
Engine == <<send_tasks, recv_tasks, recv_output, workers, wpc, wtask, n_run,
            delivered, discarded, n_enqueued>>

\* C7, shutdown is idempotent: a repeated shutdown() does not panic, finds the
\* Sender destroyed, the queue empty and no handle to join, changes nothing of
\* the engine in any of its steps, and returns.
C7_ShutdownIdempotent ==
    /\ [](last.op = "shutdown" => last.outcome \in {"running", "Ok"})
    /\ [](RepeatedShutdown =>
             /\ cpc \in {"drain", "join", "idle"}
             /\ Disconnected
             /\ recv_tasks = <<>>
             /\ workers = <<>>
             /\ Alive = {})
    /\ [][(RepeatedShutdown \/ RepeatedShutdown') /\ last'.op = "shutdown"
             => Engine' = Engine]_vars
    /\ (RepeatedShutdown /\ InShutdown)
          ~> (RepeatedShutdown /\ cpc = "idle" /\ last.outcome = "Ok")

\* C7's case: a repeated shutdown() has returned, with a result still pending
\* in the output channel.
C7_Witness ==
    /\ RepeatedShutdown
    /\ last.outcome = "Ok"
    /\ cpc = "idle"
    /\ recv_output # <<>>
    /\ n_workers >= 1

\* C8, drop: while drop runs shutdown the engine's channels are still held;
\* once the engine is dropped the Sender is destroyed, the queue drained, every
\* handle joined and no worker alive; and drop ran the shutdown sequence
\* exactly when shutdown() had never been called.
C8_DropShutsDown ==
    /\ dropping => (InShutdown /\ ReceiverAlive /\ drop_ran = "shutdown")
    /\ (drop_ran = "no") <=> (cpc # "dropped" /\ ~dropping)
    /\ cpc = "dropped" =>
          /\ Disconnected
          /\ recv_tasks = <<>>
          /\ workers = <<>>
          /\ Alive = {}
          /\ shutdown_returned
          /\ (drop_ran = "shutdown") <=> ~explicit_shutdown
          /\ (drop_ran = "skip") <=> explicit_shutdown

\* C8's case: a two-worker engine on which shutdown() was never called has
\* been dropped, with a task discarded by the drain and a task executed.
C8_Witness ==
    /\ cpc = "dropped"
    /\ ~explicit_shutdown
    /\ n_workers = 2
    /\ discarded # {}
    /\ TotalRun >= 1

\* A recv() entered when every worker had exited and no result was pending.
RecvOnDeadQueue == last.op = "recv" /\ last.alive = 0 /\ last.pending = 0

\* C9, recv() on a queue with no worker left and nothing pending does not
\* block: it never yields a result, and the caller leaves the wait with the
\* failure (the panic of expect).
C9_RecvFailsWhenPermanentlyEmpty ==
    /\ [](RecvOnDeadQueue =>
             \/ last.outcome = "waiting" /\ cpc = "recv"
             \/ last.outcome = "panic" /\ cpc = "unwind")
    /\ (RecvOnDeadQueue /\ last.outcome = "waiting")
          ~> (RecvOnDeadQueue /\ last.outcome = "panic")

\* C9's case: recv() was called after the shutdown of a queue with workers,
\* with no result pending, and has failed.
C9_Witness ==
    /\ RecvOnDeadQueue
    /\ last.outcome = "panic"
    /\ n_workers >= 1
    /\ shutdown_returned
    /\ TotalRun >= 1

Polls == {"try_recv", "recv_timeout"}

InSend(t) == \E w \in WorkerIds : wpc[w] = "send" /\ wtask[w] = t

\* C11, shutdown never discards results: no step of shutdown() changes the
\* output channel (workers may still append to it); the channel is a queue, a
\* send appending and a receive taking the head, so results come out in send
\* order; the result of an executed task is in a worker's hands, pending or
\* received, exactly once; and a receive made after shutdown has closed the
\* queue, with results pending, is answered with a result.
C11_ShutdownKeepsResults ==
    /\ [][\/ recv_output' = recv_output
          \/ /\ cpc' = cpc
             /\ \E w \in WorkerIds :
                   /\ wpc[w] = "send"
                   /\ recv_output' = Append(recv_output, wtask[w])
          \/ /\ cpc \in {"idle", "recv", "iter"}
             /\ last'.op \in Receives
             /\ recv_output # <<>>
             /\ recv_output' = Tail(recv_output)
             /\ delivered' = [delivered EXCEPT ![Head(recv_output)] = @ + 1]]_vars
    /\ [](\A t \in Tasks :
             (n_run[t] = 1 /\ t \in some_tasks) <=>
                 (Retrievable(t) + (IF InSend(t) THEN 1 ELSE 0) = 1))
    /\ []((last.op \in Receives /\ last.closed /\ last.pending >= 1)
             => last.outcome \in {"waiting", "Ok", "Some"})

\* C11's case: after a shutdown that discarded a task, a receive found two
\* results pending and was handed one of them.
C11_Witness ==
    /\ shutdown_returned
    /\ discarded # {}
    /\ last.op \in {"recv", "try_recv"}
    /\ last.closed
    /\ last.pending = 2
    /\ last.outcome = "Ok"
    /\ Len(recv_output) = 1

\* C12, iter(): the sequence ends only with every worker out of run() and
\* nothing pending, and then it ends at once and without a panic; entered after
\* shutdown with results pending it yields a result; and under fair scheduling
\* an iteration on a queue without live workers always comes to its answer.
C12_IterEndsWhenClosed ==
    /\ [][(cpc = "iter" /\ cpc' # "iter") =>
             /\ cpc' = "idle"
             /\ last'.outcome = "None" <=> (recv_output = <<>> /\ Alive = {})
             /\ last'.outcome = "Some" <=> recv_output # <<>>]_vars
    /\ [](last.op = "iter" =>
             /\ last.outcome \in {"waiting", "Some", "None"}
             /\ last.outcome = "None" => (Alive = {} /\ recv_output = <<>>)
             /\ (last.pending >= 1 /\ last.outcome # "waiting")
                   => last.outcome = "Some"
             /\ (last.pending = 0 /\ last.alive = 0 /\ last.outcome # "waiting")
                   => last.outcome = "None")
    /\ (cpc = "iter" /\ Alive = {}) ~> (cpc = "idle")

\* C12's case: an iteration after shutdown has yielded the results that were
\* pending and then ended.
C12_Witness ==
    /\ last.op = "iter"
    /\ last.outcome = "None"
    /\ shutdown_returned
    /\ n_workers >= 1
    /\ TotalDelivered >= 2
    /\ cpc = "idle"

\* A task a worker has received and not yet executed.
InFlight(t) == \E w \in WorkerIds : wpc[w] = "run" /\ wtask[w] = t

\* C17, no task is lost while the queue is open: an enqueued task is in
\* exactly one place, queued, in flight, completed or discarded, and nothing is
\* discarded before shutdown; and with at least one worker and fair scheduling
\* every enqueued task is eventually executed unless the queue is shut down.
C17_NoTaskLostWhileOpen ==
    /\ [](\A t \in Tasks :
             Count(recv_tasks, t) + (IF InFlight(t) THEN 1 ELSE 0) + n_run[t]
                 + (IF t \in discarded THEN 1 ELSE 0)
               = (IF t <= n_enqueued THEN 1 ELSE 0))
    /\ [](~Disconnected => discarded = {})
    /\ [][discarded' # discarded => cpc = "drain"]_vars
    /\ <>[](n_workers >= 1 =>
               \/ Disconnected
               \/ \A t \in 1..n_enqueued : n_run[t] = 1)

\* C17's case: two workers, the queue open, three tasks enqueued, one of them
\* without a result, all executed.
C17_Witness ==
    /\ n_workers = 2
    /\ ~Disconnected
    /\ n_enqueued = 3
    /\ some_tasks # 1..n_enqueued
    /\ \A t \in 1..n_enqueued : n_run[t] = 1

\* C18, the pool: while send_tasks is Some all n workers are alive and all n
\* handles are held, whatever ran and whatever it returned; outside shutdown()
\* a pool of n >= 1 workers has no live worker only if a shutdown has returned,
\* and a closed queue has no live worker and no handle left.
C18_PoolSize ==
    /\ ~Disconnected =>
          /\ Cardinality(Alive) = n_workers
          /\ Len(workers) = n_workers
    /\ (~InShutdown /\ n_workers >= 1 /\ Alive = {}) => shutdown_returned
    /\ (~InShutdown /\ Disconnected) => (Alive = {} /\ workers = <<>>)

\* C18's case: the queue is open, two workers have executed tasks, some with
\* a result and some without, and both are alive.
C18_Witness ==
    /\ ~Disconnected
    /\ n_workers = 2
    /\ TotalRun >= 2
    /\ some_tasks # {}
    /\ \E t \in Tasks : n_run[t] = 1 /\ t \notin some_tasks
    /\ Cardinality(Alive) = 2

\* C20, a worker's send never fails: a worker that holds a task or a result
\* finds the Receiver alive; a send appends the result and goes back to the
\* loop; a worker leaves run() only from a receive on the empty, closed task
\* queue; and the engine is released only with every worker out of run().
C20_SendNeverFails ==
    /\ [](\A w \in WorkerIds : wpc[w] \in {"run", "send"} => ReceiverAlive)
    /\ [](~ReceiverAlive => Alive = {})
    /\ [][\A w \in WorkerIds :
             (wpc[w] = "send" /\ wpc'[w] # "send") =>
                 /\ wpc'[w] = "recv"
                 /\ recv_output' = Append(recv_output, wtask[w])]_vars
    /\ [][\A w \in WorkerIds :
             (wpc[w] # "exited" /\ wpc'[w] = "exited") =>
                 (wpc[w] = "recv" /\ recv_tasks = <<>> /\ Disconnected)]_vars

\* C20's case: drop is running shutdown, is joining, and a worker is about to
\* send a result.
C20_Witness ==
    /\ dropping
    /\ cpc = "join"
    /\ \E w \in WorkerIds : wpc[w] = "send"

C13_Partition ==
    (job.kind = "mine_range" /\ n_enqueued > 0) =>
        /\ n_enqueued = job.chunks
        /\ \A i \in 1..job.chunks :
              /\ start_point(i) = job.start + (i - 1) * range
              /\ end_point(i) = job.start + i * range
        /\ \A p \in Scheduled :
              p >= job.start /\ p < job.start + job.chunks * range

\* C14, as stated: with exactly one valid proof c in [start, end), mine_range
\* does not stop before it has returned, and what it returns is c.
C14_ReturnsTheCandidate ==
    (/\ job.kind = "mine_range"
     /\ Cardinality({p \in job.valid : p >= job.start /\ p < job.end}) = 1) =>
        /\ MineReturned =>
              r = CHOOSE p \in job.valid : p >= job.start /\ p < job.end
        /\ ~MineReturned => ENABLED MineNext

C15_MineReturnsValidProof ==
    job.kind = "mine" =>
        /\ MineReturned => is_valid_for_proof(r)
        /\ ~MineReturned => ENABLED MineNext
        /\ n_enqueued = job.chunks => \E i \in 1..n_enqueued : ValidIn(i) # {}

\* Where mine on the initial block ends: every task has been executed, none
\* has found a proof, and the miner waits in recv() with the worker alive.
MineStuck ==
    /\ job.kind = "mine"
    /\ cpc = "recv"
    /\ recv_tasks = <<>>
    /\ recv_output = <<>>
    /\ Alive # {}
    /\ \A w \in WorkerIds : wpc[w] = "recv"
    /\ ~ENABLED MineNext

\* The tasks whose result mine_range has received.
Received == {t \in Tasks : delivered[t] > 0}

\* C21, what mine_range returns: it returns only with a result received, and
\* it receives one result only; the task that sent it was enqueued and
\* executed once, and has a valid proof in its chunk; the value r is valid,
\* lies in that task's chunk, hence in a scheduled sub-range, and is the
\* smallest valid proof of that chunk.
C21_ReturnsScheduledProof ==
    job.kind = "mine_range" =>
        /\ MineReturned => Received # {}
        /\ Cardinality(Received) <= 1
        /\ \A t \in Received :
              /\ t \in 1..n_enqueued
              /\ n_run[t] = 1
              /\ delivered[t] = 1
              /\ ValidIn(t) # {}
              /\ is_valid_for_proof(r)
              /\ r \in Chunk(t)
              /\ r \in Scheduled
              /\ \A p \in Chunk(t) : is_valid_for_proof(p) => r <= p

\* C21's case: two workers; mine_range has returned a proof that is the
\* smallest of its own chunk while a smaller valid proof lies in another.
C21_Witness ==
    /\ job.kind = "mine_range"
    /\ n_workers = 2
    /\ MineReturned
    /\ \E t \in Received :
          /\ r = Min(ValidIn(t))
          /\ \E i \in 1..n_enqueued : i # t /\ \E p \in ValidIn(i) : p < r
====
